---- MODULE Spec2Model ----
(***************************************************************************)
(* Vector extraction service (vector-service/app.py): the /extract handler *)
(* with its document handle, merge_connected_paths as the step-by-step     *)
(* loop the source runs, and the conversion / filter / sort that builds    *)
(* the response.                                                           *)
(*                                                                         *)
(* Geometry: a point is <<x, y>> with integer coordinates.  The drawings   *)
(* the model feeds in lie on the line y = 0, so every Euclidean distance   *)
(* the code computes is an integer and ISqrt is exact.  Lengths in metres  *)
(* are kept in centimetres (the code rounds them to 2 decimals) and        *)
(* metres_per_unit in millimetres per PDF unit.                            *)
(***************************************************************************)
EXTENDS Integers, Sequences, FiniteSets, TLC

VARIABLES
    pc,               \* position in the handler / in merge_connected_paths
    doc,              \* the fitz document handle: "none", "open", "closed"
    status,           \* HTTP status of the reply, 0 while none was sent
    provider_failed,  \* which geometry-provider call raised: "none", "open", "text", "drawings"
    metres_per_unit,  \* conversion factor, in millimetres per PDF unit
    raw_paths,        \* result of extract_coloured_paths
    colour_groups,    \* merge: the colour groups, in dict insertion order
    gi,               \* merge: index of the group the for loop is at
    remaining,        \* merge: unconsumed paths of the group
    new_remaining,    \* merge: the candidates the current pass did not splice
    idx,              \* merge: position of the inner for loop in remaining
    current,          \* merge: the chain being built (points, seed, spliced)
    changed,          \* merge: the changed flag
    runs,             \* merge: runs of the current group
    merged,           \* merge: the result list
    response_runs,    \* "runs" of the JSON reply
    colour_summary    \* "colour_summary" of the JSON reply

vars ==
    <<pc, doc, status, provider_failed, metres_per_unit, raw_paths, colour_groups,
      gi, remaining, new_remaining, idx, current, changed, runs, merged,
      response_runs, colour_summary>>

handlerVars == <<doc, status, provider_failed, metres_per_unit, response_runs, colour_summary>>

mergeVars == <<colour_groups, gi, remaining, new_remaining, idx, current, changed, runs, merged>>

-----------------------------------------------------------------------------
(* Bounds of the model *)

\* most drawings on a page
MaxPaths == 4

\* longest segment of the chained-segments specification, beyond the shortest (5)
MaxExtra == 1

(* Program constants *)

\* merge_distance default of merge_connected_paths
merge_distance == 5

\* extract_coloured_paths skips paths shorter than this
min_path_length == 5

\* runs whose rounded length is below 0.5 m are skipped: 50 cm
min_run_cm == 50

\* an upload of fewer bytes is rejected
min_pdf_bytes == 100

\* default scale ratio 1:100
default_scale_ratio == 100

\* PAPER_WIDTHS_MM["A0"], also the default paper width
A0_width_mm == 1189

RED == "#ff0000"

BLUE == "#0000ff"

-----------------------------------------------------------------------------
(* Sequence helpers *)

Range(s) == {s[i] : i \in 1..Len(s)}

\* list(reversed(s))
Reverse(s) == [i \in 1..Len(s) |-> s[Len(s) + 1 - i]]

\* s[:-1]
Front(s) == SubSeq(s, 1, Len(s) - 1)

RECURSIVE SumSeq(_)
SumSeq(s) == IF s = <<>> THEN 0 ELSE Head(s) + SumSeq(Tail(s))

\* [x for x in s if x is in set]
RECURSIVE SelectIn(_, _)
SelectIn(s, set) ==
    IF s = <<>> THEN <<>>
    ELSE IF Head(s) \in set THEN <<Head(s)>> \o SelectIn(Tail(s), set)
    ELSE SelectIn(Tail(s), set)

-----------------------------------------------------------------------------
(* Geometry *)

Pt(x) == <<x, 0>>

\* (x2-x1)**2 + (y2-y1)**2
Dist2(p, q) == (p[1] - q[1]) * (p[1] - q[1]) + (p[2] - q[2]) * (p[2] - q[2])

\* math.sqrt, exact on the perfect squares the collinear inputs produce
ISqrt(n) == CHOOSE r \in 0..n : r * r = n

Dist(p, q) == ISqrt(Dist2(p, q))

\* the sum of consecutive-vertex distances of a polyline
PathLength(points) ==
    SumSeq([i \in 1..(Len(points) - 1) |-> Dist(points[i], points[i + 1])])

-----------------------------------------------------------------------------
(* The drawings the geometry provider can return for the page.  Each is a  *)
(* stroked polyline with its colour key already computed.                  *)

Drawing(colour, xs) == [colour |-> colour, points |-> [i \in 1..Len(xs) |-> Pt(xs[i])]]

Library ==
    << Drawing(RED,  <<0, 6>>),
       Drawing(RED,  <<20, 28>>),
       Drawing(RED,  <<6, 20>>),
       Drawing(RED,  <<20, 40>>),
       Drawing(RED,  <<20, 8, 50>>),
       Drawing(RED,  <<52, 22>>),
       Drawing(BLUE, <<6, 12>>),
       Drawing(RED,  <<70, 72>>) >>

\* the sequences of at most n distinct library entries
RECURSIVE DistinctSeqs(_)
DistinctSeqs(n) ==
    IF n = 0 THEN {<<>>}
    ELSE LET S == DistinctSeqs(n - 1)
             longest == {t \in S : Len(t) = n - 1}
         IN  S \cup UNION {{Append(s, d) : d \in (1..Len(Library)) \ Range(s)} : s \in longest}

DrawingLists == {[i \in 1..Len(s) |-> Library[s[i]]] : s \in DistinctSeqs(MaxPaths)}

-----------------------------------------------------------------------------
(* extract_coloured_paths: the per-drawing tests and the path record *)

\* a drawing becomes a path unless it has fewer than 2 points or is shorter than 5 units
KeepsDrawing(d) == Len(d.points) >= 2 /\ PathLength(d.points) >= min_path_length

RawPath(d) ==
    [colour |-> d.colour, points |-> d.points, length_pdf_units |-> PathLength(d.points)]

RECURSIVE PathsOf(_)
PathsOf(drawings) ==
    IF drawings = <<>> THEN <<>>
    ELSE IF KeepsDrawing(Head(drawings))
         THEN <<RawPath(Head(drawings))>> \o PathsOf(Tail(drawings))
         ELSE PathsOf(Tail(drawings))

-----------------------------------------------------------------------------
(* merge_connected_paths.  A path is referred to by its index in raw_paths *)
(* (the list holds references to the path dicts).                          *)

\* colours in order of first appearance (dict insertion order)
RECURSIVE ColourOrder(_, _)
ColourOrder(paths, seen) ==
    IF paths = <<>> THEN <<>>
    ELSE IF Head(paths).colour \in seen THEN ColourOrder(Tail(paths), seen)
    ELSE <<Head(paths).colour>> \o ColourOrder(Tail(paths), seen \cup {Head(paths).colour})

GroupByColour_OneGroup(paths) ==
    << [colour |-> paths[1].colour, group |-> [i \in 1..Len(paths) |-> i]] >>

\* colour_groups[p["colour"]].append(p)
GroupByColour(paths) ==
    LET order == ColourOrder(paths, {})
        all == [i \in 1..Len(paths) |-> i]
    IN  [g \in 1..Len(order) |->
            [colour |-> order[g],
             group |-> SelectIn(all, {i \in 1..Len(paths) : paths[i].colour = order[g]})]]

\* d < merge_distance, for d = math.sqrt(dist2)
Near(p, q) == Dist2(p, q) < merge_distance * merge_distance

MatchCase_NoHeadTail(cur, cand) ==
    LET c_start == cand[1]
        c_end == cand[Len(cand)]
        cur_start == cur[1]
        cur_end == cur[Len(cur)]
    IN  IF Near(cur_end, c_start) THEN 1
        ELSE IF Near(cur_end, c_end) THEN 2
        ELSE IF Near(cur_start, c_start) THEN 3
        ELSE 0

\* which of the four connections the if/elif chain takes: 1 tail-head (d1),
\* 2 tail-tail (d2), 3 head-head (d3), 4 head-tail (d4), 0 none
MatchCase(cur, cand) ==
    LET c_start == cand[1]
        c_end == cand[Len(cand)]
        cur_start == cur[1]
        cur_end == cur[Len(cur)]
    IN  IF Near(cur_end, c_start) THEN 1
        ELSE IF Near(cur_end, c_end) THEN 2
        ELSE IF Near(cur_start, c_start) THEN 3
        ELSE IF Near(cur_start, c_end) THEN 4
        ELSE 0

\* the new current_points of each branch
Splice(cur, cand, case) ==
    CASE case = 1 -> cur \o Tail(cand)
      [] case = 2 -> cur \o Reverse(Front(cand))
      [] case = 3 -> Reverse(Front(cand)) \o cur
      [] case = 4 -> cand \o Tail(cur)

\* the run dict appended when a chain is finished; seed and spliced record
\* which paths the chain was built from
MakeRun(colour, cur) ==
    [colour |-> colour,
     points |-> cur.points,
     length_pdf_units |-> PathLength(cur.points),
     segment_count |-> Len(cur.points) - 1,
     seed |-> cur.seed,
     spliced |-> cur.spliced]

NoChain == [points |-> <<>>, seed |-> 0, spliced |-> <<>>]

-----------------------------------------------------------------------------
(* Scale and conversion *)

\* get_metres_per_pdf_unit, in millimetres per PDF unit:
\* (paper_width_mm / page_width) * scale_ratio / 1000 metres
MmPerUnit(scale_ratio, paper_width_mm, page_width) ==
    (paper_width_mm * scale_ratio) \div page_width

\* round(mm / 1000, 2) in centimetres: to the nearest, a tie to the even one
Round2(mm) ==
    LET q == mm \div 10
        r == mm % 10
    IN  IF r < 5 THEN q
        ELSE IF r > 5 THEN q + 1
        ELSE IF q % 2 = 0 THEN q ELSE q + 1

\* length_metres = round(run["length_pdf_units"] * metres_per_unit, 2)
LengthCm(run, mpu) == Round2(run.length_pdf_units * mpu)

KeepsRun_Unrounded(run, mpu) == run.length_pdf_units * mpu >= min_run_cm * 10

\* not (length_metres < 0.5)
KeepsRun(run, mpu) == LengthCm(run, mpu) >= min_run_cm

\* the entry appended to response_runs; emitted is the run's position in
\* the list merge_connected_paths returned
ResponseRun(run, mpu, k) ==
    [colour |-> run.colour,
     total_length_metres |-> LengthCm(run, mpu),
     total_length_pdf_units |-> run.length_pdf_units,
     segment_count |-> run.segment_count,
     emitted |-> k]

\* the loop over runs, from position k on
RECURSIVE Convert(_, _, _)
Convert(rs, mpu, k) ==
    IF k > Len(rs) THEN <<>>
    ELSE IF KeepsRun(rs[k], mpu)
         THEN <<ResponseRun(rs[k], mpu, k)>> \o Convert(rs, mpu, k + 1)
         ELSE Convert(rs, mpu, k + 1)

\* colour_summary as built by the loop, totals rounded
Summary(resp) ==
    [c \in {resp[i].colour : i \in 1..Len(resp)} |->
        LET mine == SelectIn([i \in 1..Len(resp) |-> i],
                             {i \in 1..Len(resp) : resp[i].colour = c})
        IN  [run_count |-> Len(mine),
             total_length_metres |->
                 SumSeq([j \in 1..Len(mine) |-> resp[mine[j]].total_length_metres])]]

InsertDesc_Unstable(sorted, r) ==
    LET before == SelectIn([i \in 1..Len(sorted) |-> i],
                           {i \in 1..Len(sorted) :
                               sorted[i].total_length_metres > r.total_length_metres})
        n == Len(before)
    IN  SubSeq(sorted, 1, n) \o <<r>> \o SubSeq(sorted, n + 1, Len(sorted))

\* r goes after every entry whose key is at least its own: equal keys keep
\* their order (list.sort is stable, also with reverse=True)
InsertDesc(sorted, r) ==
    LET before == SelectIn([i \in 1..Len(sorted) |-> i],
                           {i \in 1..Len(sorted) :
                               sorted[i].total_length_metres >= r.total_length_metres})
        n == Len(before)
    IN  SubSeq(sorted, 1, n) \o <<r>> \o SubSeq(sorted, n + 1, Len(sorted))

\* response_runs.sort(key=lambda r: r["total_length_metres"], reverse=True)
RECURSIVE SortDesc(_)
SortDesc(rs) ==
    IF rs = <<>> THEN <<>>
    ELSE InsertDesc(SortDesc(Front(rs)), rs[Len(rs)])

-----------------------------------------------------------------------------
(* The request inputs *)

UploadSizes == {0, 99, 100}

PageArgs == {"abc", "0", "1", "2"}

\* int(request.args.get("page", "1")); "abc" raises ValueError
IsNumber(a) == a # "abc"

IntOf(a) == CASE a = "0" -> 0 [] a = "1" -> 1 [] a = "2" -> 2

\* len(doc) of the uploaded document
PageCounts == {1}

\* the scale query parameter, 0 when absent; the page text names no scale or
\* paper size, so the defaults 1:100 and A0 apply; the page is as wide as
\* an A0 sheet is in mm
ScaleParams == {0, 62}

-----------------------------------------------------------------------------
(* The /extract handler *)

Init ==
    /\ pc = "start"
    /\ doc = "none"
    /\ status = 0
    /\ provider_failed = "none"
    /\ metres_per_unit = 0
    /\ raw_paths = <<>>
    /\ colour_groups = <<>>
    /\ gi = 0
    /\ remaining = <<>>
    /\ new_remaining = <<>>
    /\ idx = 0
    /\ current = NoChain
    /\ changed = FALSE
    /\ runs = <<>>
    /\ merged = <<>>
    /\ response_runs = <<>>
    /\ colour_summary = <<>>

\* the upload checks: no "pdf" field, or fewer than 100 bytes, ends with 400
ReceiveRequest ==
    /\ pc = "start"
    /\ \E has_pdf \in BOOLEAN, nbytes \in UploadSizes :
          IF ~has_pdf \/ nbytes < min_pdf_bytes
          THEN status' = 400 /\ pc' = "done"
          ELSE status' = status /\ pc' = "open"
    /\ UNCHANGED <<doc, provider_failed, metres_per_unit, raw_paths, response_runs,
                   colour_summary, mergeVars>>

\* page_num = int(...), fitz.open in its try, and the page range check
OpenDocument ==
    /\ pc = "open"
    /\ \E page_arg \in PageArgs, open_ok \in BOOLEAN, page_count \in PageCounts :
          IF ~IsNumber(page_arg)
          THEN /\ status' = 500
               /\ pc' = "done"
               /\ UNCHANGED <<doc, provider_failed>>
          ELSE IF ~open_ok
          THEN /\ provider_failed' = "open"
               /\ status' = 400
               /\ pc' = "done"
               /\ UNCHANGED doc
          ELSE IF IntOf(page_arg) < 1 \/ IntOf(page_arg) > page_count
          THEN /\ doc' = "open"
               /\ status' = 400
               /\ pc' = "done"
               /\ UNCHANGED provider_failed
          ELSE /\ doc' = "open"
               /\ pc' = "read_page"
               /\ UNCHANGED <<status, provider_failed>>
    /\ UNCHANGED <<metres_per_unit, raw_paths, response_runs, colour_summary, mergeVars>>

\* doc[page_num - 1], page.rect, detect_scale_from_text (page.get_text is not
\* in a try: its exception leaves the handler) and get_metres_per_pdf_unit
ReadPage ==
    /\ pc = "read_page"
    /\ \E text_ok \in BOOLEAN, scale_param \in ScaleParams :
          IF ~text_ok
          THEN /\ provider_failed' = "text"
               /\ status' = 500
               /\ pc' = "done"
               /\ UNCHANGED metres_per_unit
          ELSE /\ metres_per_unit' =
                     MmPerUnit(IF scale_param # 0 THEN scale_param ELSE default_scale_ratio,
                               A0_width_mm, A0_width_mm)
               /\ pc' = "extract_paths"
               /\ UNCHANGED <<status, provider_failed>>
    /\ UNCHANGED <<doc, raw_paths, response_runs, colour_summary, mergeVars>>

\* extract_coloured_paths (a get_drawings failure is caught and gives no
\* paths) and the empty-result reply
ExtractPaths ==
    /\ pc = "extract_paths"
    /\ \E drawings_ok \in BOOLEAN, drawings \in DrawingLists :
          LET paths == PathsOf(drawings)
          IN  IF ~drawings_ok
              THEN /\ drawings = <<>>
                   /\ provider_failed' = "drawings"
                   /\ raw_paths' = <<>>
                   /\ doc' = "closed"
                   /\ status' = 200
                   /\ pc' = "done"
              ELSE IF Len(paths) = 0
              THEN /\ raw_paths' = paths
                   /\ doc' = "closed"
                   /\ status' = 200
                   /\ pc' = "done"
                   /\ UNCHANGED provider_failed
              ELSE /\ raw_paths' = paths
                   /\ pc' = "merge"
                   /\ UNCHANGED <<doc, status, provider_failed>>
    /\ UNCHANGED <<metres_per_unit, response_runs, colour_summary, mergeVars>>

\* the conversion loop, the summary, the sort, doc.close() and the reply
BuildResponse ==
    /\ pc = "merged"
    /\ response_runs' = SortDesc(Convert(merged, metres_per_unit, 1))
    /\ colour_summary' = Summary(Convert(merged, metres_per_unit, 1))
    /\ doc' = "closed"
    /\ status' = 200
    /\ pc' = "done"
    /\ UNCHANGED <<provider_failed, metres_per_unit, raw_paths, mergeVars>>

-----------------------------------------------------------------------------
(* merge_connected_paths, one action per loop position *)

\* the empty-input return, the grouping by colour, merged = []
MergeBegin ==
    /\ pc = "merge"
    /\ IF raw_paths = <<>>
       THEN /\ pc' = "merged"
            /\ UNCHANGED <<colour_groups, gi>>
       ELSE /\ colour_groups' = GroupByColour(raw_paths)
            /\ gi' = 1
            /\ pc' = "group_loop"
    /\ merged' = <<>>
    /\ UNCHANGED <<raw_paths, remaining, new_remaining, idx, current, changed, runs, handlerVars>>

\* for colour, group in colour_groups.items(): runs = [], remaining = list(group);
\* after the last group, return merged
GroupNext ==
    /\ pc = "group_loop"
    /\ IF gi <= Len(colour_groups)
       THEN /\ runs' = <<>>
            /\ remaining' = colour_groups[gi].group
            /\ pc' = "while_remaining"
       ELSE /\ pc' = "merged"
            /\ UNCHANGED <<runs, remaining>>
    /\ UNCHANGED <<raw_paths, colour_groups, gi, new_remaining, idx, current, changed,
                   merged, handlerVars>>

\* while remaining: current = remaining.pop(0) ...; else merged.extend(runs)
SeedChain ==
    /\ pc = "while_remaining"
    /\ IF remaining # <<>>
       THEN /\ current' = [points |-> raw_paths[Head(remaining)].points,
                           seed |-> Head(remaining),
                           spliced |-> <<>>]
            /\ remaining' = Tail(remaining)
            /\ changed' = TRUE
            /\ pc' = "while_changed"
            /\ UNCHANGED <<merged, gi>>
       ELSE /\ merged' = merged \o runs
            /\ gi' = gi + 1
            /\ pc' = "group_loop"
            /\ UNCHANGED <<current, remaining, changed>>
    /\ UNCHANGED <<raw_paths, colour_groups, new_remaining, idx, runs, handlerVars>>

\* while changed: changed = False, new_remaining = []; else the run is
\* computed and appended
PassBegin ==
    /\ pc = "while_changed"
    /\ IF changed
       THEN /\ changed' = FALSE
            /\ new_remaining' = <<>>
            /\ idx' = 1
            /\ pc' = "scan"
            /\ UNCHANGED runs
       ELSE /\ runs' = Append(runs, MakeRun(colour_groups[gi].colour, current))
            /\ pc' = "while_remaining"
            /\ UNCHANGED <<changed, new_remaining, idx>>
    /\ UNCHANGED <<raw_paths, colour_groups, gi, remaining, current, merged, handlerVars>>

ScanCandidate_DropsUnmatched ==
    /\ pc = "scan"
    /\ IF idx <= Len(remaining)
       THEN LET candidate == raw_paths[remaining[idx]]
                case == MatchCase(current.points, candidate.points)
            IN  /\ IF case # 0
                   THEN /\ current' = [current EXCEPT
                                          !.points = Splice(current.points, candidate.points, case),
                                          !.spliced = Append(@, remaining[idx])]
                        /\ changed' = TRUE
                        /\ UNCHANGED new_remaining
                   ELSE /\ UNCHANGED <<current, changed, new_remaining>>
                /\ idx' = idx + 1
                /\ UNCHANGED <<remaining, pc>>
       ELSE /\ remaining' = new_remaining
            /\ pc' = "while_changed"
            /\ UNCHANGED <<current, changed, new_remaining, idx>>
    /\ UNCHANGED <<raw_paths, colour_groups, gi, runs, merged, handlerVars>>

ScanCandidate_NoRescan ==
    /\ pc = "scan"
    /\ IF idx <= Len(remaining)
       THEN LET candidate == raw_paths[remaining[idx]]
                case == MatchCase(current.points, candidate.points)
            IN  /\ IF case # 0
                   THEN /\ current' = [current EXCEPT
                                          !.points = Splice(current.points, candidate.points, case),
                                          !.spliced = Append(@, remaining[idx])]
                        /\ UNCHANGED <<changed, new_remaining>>
                   ELSE /\ new_remaining' = Append(new_remaining, remaining[idx])
                        /\ UNCHANGED <<current, changed>>
                /\ idx' = idx + 1
                /\ UNCHANGED <<remaining, pc>>
       ELSE /\ remaining' = new_remaining
            /\ pc' = "while_changed"
            /\ UNCHANGED <<current, changed, new_remaining, idx>>
    /\ UNCHANGED <<raw_paths, colour_groups, gi, runs, merged, handlerVars>>

\* for candidate in remaining: the four distances and the if/elif chain;
\* after the last candidate, remaining = new_remaining
ScanCandidate ==
    /\ pc = "scan"
    /\ IF idx <= Len(remaining)
       THEN LET candidate == raw_paths[remaining[idx]]
                case == MatchCase(current.points, candidate.points)
            IN  /\ IF case # 0
                   THEN /\ current' = [current EXCEPT
                                          !.points = Splice(current.points, candidate.points, case),
                                          !.spliced = Append(@, remaining[idx])]
                        /\ changed' = TRUE
                        /\ UNCHANGED new_remaining
                   ELSE /\ new_remaining' = Append(new_remaining, remaining[idx])
                        /\ UNCHANGED <<current, changed>>
                /\ idx' = idx + 1
                /\ UNCHANGED <<remaining, pc>>
       ELSE /\ remaining' = new_remaining
            /\ pc' = "while_changed"
            /\ UNCHANGED <<current, changed, new_remaining, idx>>
    /\ UNCHANGED <<raw_paths, colour_groups, gi, runs, merged, handlerVars>>

NextMerge == MergeBegin \/ GroupNext \/ SeedChain \/ PassBegin \/ ScanCandidate

Next == ReceiveRequest \/ OpenDocument \/ ReadPage \/ ExtractPaths \/ BuildResponse \/ NextMerge

Spec == Init /\ [][Next]_vars

-----------------------------------------------------------------------------
(* merge_connected_paths on three chained collinear segments               *)
(* A-B, B'-C, C'-D, each listed from its earlier to its later endpoint,    *)
(* each at least merge_distance long, the gaps B-B' and C-C' from 0 to     *)
(* less than merge_distance, in each of the 6 orders.                      *)

SegLengths == min_path_length..(min_path_length + MaxExtra)

Gaps == 0..(merge_distance - 1)

Perms3 == {<<1, 2, 3>>, <<1, 3, 2>>, <<2, 1, 3>>, <<2, 3, 1>>, <<3, 1, 2>>, <<3, 2, 1>>}

ChainSegments(l1, g1, l2, g2, l3) ==
    << RawPath(Drawing(RED, <<0, l1>>)),
       RawPath(Drawing(RED, <<l1 + g1, l1 + g1 + l2>>)),
       RawPath(Drawing(RED, <<l1 + g1 + l2 + g2, l1 + g1 + l2 + g2 + l3>>)) >>

ChainInputs ==
    {[i \in 1..3 |-> ChainSegments(l1, g1, l2, g2, l3)[p[i]]] :
        l1 \in SegLengths, l2 \in SegLengths, l3 \in SegLengths,
        g1 \in Gaps, g2 \in Gaps, p \in Perms3}

InitChain ==
    /\ pc = "merge"
    /\ raw_paths \in ChainInputs
    /\ doc = "open"
    /\ status = 0
    /\ provider_failed = "none"
    /\ metres_per_unit = default_scale_ratio
    /\ colour_groups = <<>>
    /\ gi = 0
    /\ remaining = <<>>
    /\ new_remaining = <<>>
    /\ idx = 0
    /\ current = NoChain
    /\ changed = FALSE
    /\ runs = <<>>
    /\ merged = <<>>
    /\ response_runs = <<>>
    /\ colour_summary = <<>>

SpecChain == InitChain /\ [][NextMerge]_vars

-----------------------------------------------------------------------------
(* merge_connected_paths on every path list extract_coloured_paths can     *)
(* return for the library's drawings.  The function is one synchronous     *)
(* loop: a step that can be taken is taken, hence the weak fairness.       *)

InitMerge ==
    /\ pc = "merge"
    /\ raw_paths \in {PathsOf(drawings) : drawings \in DrawingLists}
    /\ doc = "open"
    /\ status = 0
    /\ provider_failed = "none"
    /\ metres_per_unit = default_scale_ratio
    /\ colour_groups = <<>>
    /\ gi = 0
    /\ remaining = <<>>
    /\ new_remaining = <<>>
    /\ idx = 0
    /\ current = NoChain
    /\ changed = FALSE
    /\ runs = <<>>
    /\ merged = <<>>
    /\ response_runs = <<>>
    /\ colour_summary = <<>>

SpecMerge == InitMerge /\ [][NextMerge]_vars /\ WF_vars(NextMerge)

-----------------------------------------------------------------------------
(* Properties *)

Replied == pc = "done"

ReplyOk == pc = "done" /\ status = 200

MergeReturned == pc = "merged"

\* the paths a run was built from, in the order they were consumed
Members(run) == <<run.seed>> \o run.spliced

\* the first and the last point of a polyline
Ends(points) == {points[1], points[Len(points)]}

RECURSIVE SumOver(_, _)
SumOver(S, f) ==
    IF S = {} THEN 0
    ELSE LET x == CHOOSE y \in S : TRUE IN f[x] + SumOver(S \ {x}, f)

\* C1: once the document was opened, it is closed when the call returns,
\* on every exit path.
C1_HandleClosedOnReturn == (Replied /\ doc # "none") => doc = "closed"

\* C6: when a geometry-provider call failed (open, get_drawings, get_text)
\* the request ends with HTTP 400, never with a success reply.
C6_ProviderFailureIs400 == (Replied /\ provider_failed # "none") => status = 400

(* C2 *)

SumOfLengths(paths) == SumSeq([i \in 1..Len(paths) |-> paths[i].length_pdf_units])

AllX(paths) == {paths[i].points[j][1] : i \in 1..Len(paths), j \in 1..2}

\* the distance from A to D
ChainSpan(paths) ==
    (CHOOSE x \in AllX(paths) : \A y \in AllX(paths) : y <= x)
    - (CHOOSE x \in AllX(paths) : \A y \in AllX(paths) : x <= y)

\* C2 as claimed: in every order the three chained segments merge into one
\* run whose total length is the sum of the three segments' lengths.
C2_OneRunOfSummedLength ==
    MergeReturned =>
        /\ Len(merged) = 1
        /\ merged[1].length_pdf_units = SumOfLengths(raw_paths)

\* C2 amended: in every order the three chained segments merge into one run
\* whose total length is the distance from A to D, which is the sum of the
\* three lengths plus the two gaps, so the sum itself when both gaps are 0.
C2_OneRunOfChainSpan ==
    MergeReturned =>
        /\ Len(merged) = 1
        /\ merged[1].length_pdf_units = ChainSpan(raw_paths)

\* the middle segment is the seed, the chain has a gap, and one run came out
C2_Witness ==
    /\ MergeReturned
    /\ Len(merged) = 1
    /\ merged[1].segment_count = 3
    /\ ChainSpan(raw_paths) > SumOfLengths(raw_paths)
    /\ raw_paths[1].points[1][1] > 0
    /\ raw_paths[1].points[2][1] < ChainSpan(raw_paths)

(* C3 *)

\* length in PDF units times metres_per_unit, in millimetres
ConvertedMm(run) == run.length_pdf_units * metres_per_unit

InResponse(k) == \E i \in 1..Len(response_runs) : response_runs[i].emitted = k

\* the reply holds exactly the merged runs in Kept, and colour_summary counts
\* and sums exactly those
ReplyHoldsExactly(Kept) ==
    LET colours == {merged[k].colour : k \in Kept}
        cm == [k \in Kept |-> LengthCm(merged[k], metres_per_unit)]
    IN  /\ \A k \in 1..Len(merged) : InResponse(k) <=> k \in Kept
        /\ DOMAIN colour_summary = colours
        /\ \A c \in colours :
              LET mine == {k \in Kept : merged[k].colour = c}
              IN  /\ colour_summary[c].run_count = Cardinality(mine)
                  /\ colour_summary[c].total_length_metres = SumOver(mine, cm)

\* C3 as claimed: a run whose length times metres_per_unit is below 0.5 m is
\* not in the reply's runs and adds nothing to colour_summary, and every run
\* in the reply has a length times metres_per_unit of at least 0.5 m.
C3_ShortRunsDropped ==
    ReplyOk =>
        ReplyHoldsExactly({k \in 1..Len(merged) : ConvertedMm(merged[k]) >= min_run_cm * 10})

\* C3 amended: the threshold applies to the length rounded to 2 decimals: a
\* run whose rounded length is below 0.5 m is not in the reply's runs and
\* adds nothing to colour_summary, and every run in the reply has a rounded
\* length of at least 0.5 m (a run of 0.495 m to 0.5 m is kept, as 0.5).
C3_ShortRunsDroppedAfterRounding ==
    ReplyOk =>
        /\ ReplyHoldsExactly({k \in 1..Len(merged) :
                                 LengthCm(merged[k], metres_per_unit) >= min_run_cm})
        /\ \A i \in 1..Len(response_runs) :
              response_runs[i].total_length_metres >= min_run_cm

\* a reply where one run was dropped, a run between 0.495 m and 0.5 m was
\* kept, and a colour of the merge has no summary entry
C3_Witness ==
    /\ ReplyOk
    /\ \E k \in 1..Len(merged) : ~InResponse(k)
    /\ \E k \in 1..Len(merged) :
          InResponse(k) /\ ConvertedMm(merged[k]) < min_run_cm * 10
    /\ \E k \in 1..Len(merged) : merged[k].colour \notin DOMAIN colour_summary

C5_RunsStayWithinColour ==
    \A k \in 1..Len(merged) :
        /\ \A m \in Range(Members(merged[k])) : raw_paths[m].colour = merged[k].colour
        /\ \A q \in Range(merged[k].points) :
              \E m \in Range(Members(merged[k])) : q \in Range(raw_paths[m].points)

\* two runs of different colours whose endpoints are within merge_distance
C5_Witness ==
    /\ MergeReturned
    /\ \E i, j \in 1..Len(merged) :
          /\ merged[i].colour # merged[j].colour
          /\ \E p \in Ends(merged[i].points), q \in Ends(merged[j].points) : Near(p, q)

(* C7 *)

\* the inner loop is at a candidate that connects to the chain
AtSplice ==
    /\ pc = "scan"
    /\ idx <= Len(remaining)
    /\ MatchCase(current.points, raw_paths[remaining[idx]].points) # 0

\* the candidate's end that was not matched: its last point when its first
\* point was matched (cases 1 and 3), its first point otherwise
UnmatchedEnd(cand, case) == IF case \in {1, 3} THEN cand[Len(cand)] ELSE cand[1]

\* the candidate's vertices without its matched end
BeyondMatchedEnd(cand, case) == IF case \in {1, 3} THEN Tail(cand) ELSE Front(cand)

\* C7: a splice joins the whole candidate to the chain: afterwards the chain
\* has every vertex of the candidate but at most one of the two matched
\* endpoints, and its outer endpoint on the spliced side (the tail in cases
\* 1 and 2, the head in cases 3 and 4) is the candidate's unmatched endpoint.
C7_SpliceJoinsWholeCandidate ==
    [][AtSplice =>
          LET cand == raw_paths[remaining[idx]].points
              case == MatchCase(current.points, cand)
              new == current'.points
          IN  /\ Len(new) >= Len(current.points) + Len(cand) - 1
              /\ Range(BeyondMatchedEnd(cand, case)) \subseteq Range(new)
              /\ IF case \in {1, 2}
                 THEN new[Len(new)] = UnmatchedEnd(cand, case)
                 ELSE new[1] = UnmatchedEnd(cand, case)]_vars

(* C8 *)

\* The reference: after each splice the remaining unconsumed paths are
\* scanned again from the first one.
RECURSIVE FirstMatch(_, _, _)
FirstMatch(points, rem, i) ==
    IF i > Len(rem) THEN 0
    ELSE IF MatchCase(points, raw_paths[rem[i]].points) # 0 THEN i
    ELSE FirstMatch(points, rem, i + 1)

RECURSIVE RefChain(_, _)
RefChain(chain, rem) ==
    LET i == FirstMatch(chain.points, rem, 1)
    IN  IF i = 0 THEN [chain |-> chain, rem |-> rem]
        ELSE LET cand == raw_paths[rem[i]].points
             IN  RefChain([chain EXCEPT
                              !.points = Splice(@, cand, MatchCase(chain.points, cand)),
                              !.spliced = Append(@, rem[i])],
                          SubSeq(rem, 1, i - 1) \o SubSeq(rem, i + 1, Len(rem)))

RECURSIVE RefGroup(_, _)
RefGroup(colour, rem) ==
    IF rem = <<>> THEN <<>>
    ELSE LET r == RefChain([points |-> raw_paths[Head(rem)].points,
                            seed |-> Head(rem),
                            spliced |-> <<>>],
                           Tail(rem))
         IN  <<MakeRun(colour, r.chain)>> \o RefGroup(colour, r.rem)

RECURSIVE RefGroups(_, _)
RefGroups(groups, g) ==
    IF g > Len(groups) THEN <<>>
    ELSE RefGroup(groups[g].colour, groups[g].group) \o RefGroups(groups, g + 1)

RefMerge == IF raw_paths = <<>> THEN <<>> ELSE RefGroups(GroupByColour(raw_paths), 1)

PointsOf(rs) == [k \in 1..Len(rs) |-> [colour |-> rs[k].colour, points |-> rs[k].points]]

\* C8 as claimed: the runs returned are those of the reference, the same
\* point sequences in the same order.
C8_SameRunsAsRestartReference ==
    MergeReturned => PointsOf(merged) = PointsOf(RefMerge)

\* C8 amended: after a splice the scan goes on with the next candidate of the
\* same pass, and the candidates passed over before it are looked at again
\* only in the next pass.  The runs returned are those of the reference
\* when no colour group has more than three paths (the seed and two
\* candidates); from four paths on they can differ.
C8_SameRunsAsReferenceUpToThree ==
    (MergeReturned /\ \A g \in 1..Len(colour_groups) : Len(colour_groups[g].group) <= 3)
        => PointsOf(merged) = PointsOf(RefMerge)

\* a group of three paths whose run spliced the later candidate first and the
\* earlier one in the next pass
C8_Witness ==
    /\ MergeReturned
    /\ \A g \in 1..Len(colour_groups) : Len(colour_groups[g].group) <= 3
    /\ \E k \in 1..Len(merged) :
          /\ Len(merged[k].spliced) = 2
          /\ merged[k].spliced[1] > merged[k].spliced[2]

(* C9 *)

AllMembers ==
    LET RECURSIVE Cat(_)
        Cat(k) == IF k > Len(merged) THEN <<>> ELSE Members(merged[k]) \o Cat(k + 1)
    IN  Cat(1)

\* every input path is in exactly one run, exactly once
EachPathConsumedOnce ==
    /\ Len(AllMembers) = Len(raw_paths)
    /\ Range(AllMembers) = 1..Len(raw_paths)

\* C9: merge_connected_paths returns on every input, and when it returns
\* every input path has been consumed exactly once, as the seed of one run or
\* spliced into one run.
C9_TerminatesConsumingEachPathOnce ==
    /\ <>MergeReturned
    /\ [](MergeReturned => EachPathConsumedOnce)

\* the merge returned a run that a candidate matching the chain at both of
\* its ends (a near-closed loop) was spliced into
C9_Witness ==
    /\ MergeReturned
    /\ \E k \in 1..Len(merged) :
          LET pts == merged[k].points
          IN  /\ Len(merged[k].spliced) >= 1
              /\ Near(pts[1], pts[Len(pts)])
              /\ Len(pts) >= 4

\* C10: no two distinct runs of one colour are still joinable: each of the
\* four distances between an endpoint of one and an endpoint of the other is
\* at least merge_distance.
C10_NoJoinableRunsLeft ==
    MergeReturned =>
        \A i, j \in 1..Len(merged) :
            (i # j /\ merged[i].colour = merged[j].colour) =>
                \A p \in Ends(merged[i].points), q \in Ends(merged[j].points) : ~Near(p, q)

====
